---- MODULE Spec2Model ----
(***************************************************************************)
(* A model of subtitle_search.py: the SRT corpus (subtitle_data), the      *)
(* search and translation worker threads, the Tk hand-off queue            *)
(* (window.after) and the translator service.                              *)
(*                                                                         *)
(* Text is a sequence of one-character strings; a timestamp and the arrow  *)
(* "-->" are single tokens of a file's content.                            *)
(***************************************************************************)
EXTENDS Integers, Sequences, FiniteSets, TLC

\* ------------------------------------------------------------------ text

TS1 == "00:00:01,000"
TS2 == "00:00:02.000"
TS2c == "00:00:02,000"
ARROW == "-->"
NL == "\n"

\* \d{2}:\d{2}:\d{2}[,.]\d{3}
IsTimestamp(c) == c \in {TS1, TS2, TS2c}

\* match.group(1).replace('.', ',')
NormalizeTime(c) == IF c = TS2 THEN TS2c ELSE c

\* [\n\r]
IsNewline(c) == c = NL

\* \s, and what str.strip() removes
IsSpace(c) == c \in {" ", NL}

\* str.lower() on one character
LowerChar(c) ==
  CASE c = "H" -> "h"
    [] c = "I" -> "i"
    [] OTHER -> c

\* str.lower()
Lower(s) == [i \in 1..Len(s) |-> LowerChar(s[i])]

RECURSIVE LStrip(_)
LStrip(s) == IF s # <<>> /\ IsSpace(Head(s)) THEN LStrip(Tail(s)) ELSE s

RECURSIVE RStrip(_)
RStrip(s) ==
  IF s # <<>> /\ IsSpace(s[Len(s)]) THEN RStrip(SubSeq(s, 1, Len(s) - 1)) ELSE s

\* str.strip()
Strip(s) == RStrip(LStrip(s))

\* str.isspace(): non-empty and whitespace only
IsSpaceStr(s) == s # <<>> /\ \A i \in 1..Len(s) : IsSpace(s[i])

\* `needle in hay` on strings
Contains(hay, needle) ==
  \E i \in 0..(Len(hay) - Len(needle)) :
    \A j \in 1..Len(needle) : hay[i + j] = needle[j]

\* The number of consecutive newlines of s from index i on.
RECURSIVE NewlineRun(_, _)
NewlineRun(s, i) ==
  IF i <= Len(s) /\ IsNewline(s[i]) THEN 1 + NewlineRun(s, i + 1) ELSE 0

\* The first index >= i of s that satisfies nothing in particular but is past
\* the whitespace starting at i: the greedy \s* of the pattern.
RECURSIVE SkipSpace(_, _)
SkipSpace(s, i) ==
  IF i <= Len(s) /\ IsSpace(s[i]) THEN SkipSpace(s, i + 1) ELSE i

\* The first index >= i of s holding a newline, or 0.
RECURSIVE FirstNewline(_, _)
FirstNewline(s, i) ==
  IF i > Len(s) THEN 0
  ELSE IF IsNewline(s[i]) THEN i
  ELSE FirstNewline(s, i + 1)

\* The first index >= i of s where at least two newlines start, or 0: where
\* the lazy group (.*?) hands over to [\n\r]{2,}.
RECURSIVE FirstBlankLine(_, _)
FirstBlankLine(s, i) ==
  IF i > Len(s) THEN 0
  ELSE IF NewlineRun(s, i) >= 2 THEN i
  ELSE FirstBlankLine(s, i + 1)

NoMatch == [ok |-> FALSE, start |-> "", text |-> <<>>, end |-> 0]

\* One match of
\*   (\d{2}:\d{2}:\d{2}[,.]\d{3})\s*-->.*?[\n\r]+(.*?)[\n\r]{2,}
\* (re.DOTALL) anchored at index i of content, in the regex engine's
\* backtracking order: the first .*? is as short as possible, [\n\r]+ as long
\* as possible, the group as short as possible.
MatchAt(content, i) ==
  IF ~IsTimestamp(content[i]) THEN NoMatch
  ELSE
    LET a == SkipSpace(content, i + 1) IN
    IF a > Len(content) \/ content[a] # ARROW THEN NoMatch
    ELSE
      LET q == FirstNewline(content, a + 1) IN
      IF q = 0 THEN NoMatch
      ELSE
        LET r == NewlineRun(content, q)
            g == q + r
            e == FirstBlankLine(content, g)
        IN
        IF e # 0
        THEN [ok |-> TRUE, start |-> content[i],
              text |-> SubSeq(content, g, e - 1),
              end |-> e + NewlineRun(content, e)]
        ELSE IF r >= 3
        THEN [ok |-> TRUE, start |-> content[i], text |-> <<>>, end |-> q + r]
        ELSE NoMatch

\* The first index >= i of s holding ">" (the arrow token ends in one) with no
\* newline before it, or 0: the end of a tag, for <.*?> without re.DOTALL.
RECURSIVE TagEnd(_, _)
TagEnd(s, i) ==
  IF i > Len(s) \/ IsNewline(s[i]) THEN 0
  ELSE IF s[i] \in {">", ARROW} THEN i
  ELSE TagEnd(s, i + 1)

\* re.sub(r'<.*?>', '', s)
RECURSIVE RemoveTags(_)
RemoveTags(s) ==
  IF s = <<>> THEN <<>>
  ELSE
    LET j == IF Head(s) = "<" THEN TagEnd(s, 2) ELSE 0 IN
    IF j # 0
    THEN RemoveTags(SubSeq(s, j + 1, Len(s)))
    ELSE <<Head(s)>> \o RemoveTags(Tail(s))

\* ' '.join(line.strip() for line in s.splitlines() if line.strip())
RECURSIVE JoinLines(_)
JoinLines(s) ==
  IF s = <<>> THEN <<>>
  ELSE
    LET n == FirstNewline(s, 1)
        line == Strip(IF n = 0 THEN s ELSE SubSeq(s, 1, n - 1))
        rest == IF n = 0 THEN <<>> ELSE JoinLines(SubSeq(s, n + 1, Len(s)))
    IN
    IF line = <<>> THEN rest
    ELSE IF rest = <<>> THEN line
    ELSE line \o <<" ">> \o rest

\* The body of the finditer loop: the cleaned text of one block.
CleanText(text_block) == JoinLines(RemoveTags(Strip(text_block)))

\* The finditer loop of load_srt_file over content from index i on: the list
\* `subtitles` of (start_time, clean_text).
RECURSIVE ParseFrom(_, _)
ParseFrom(content, i) ==
  IF i > Len(content) THEN <<>>
  ELSE
    LET m == MatchAt(content, i) IN
    IF ~m.ok THEN ParseFrom(content, i + 1)
    ELSE
      LET clean_text == CleanText(m.text) IN
      (IF clean_text # <<>>
       THEN << <<NormalizeTime(m.start), clean_text>> >>
       ELSE <<>>) \o ParseFrom(content, m.end)

ParseSrt(content) == ParseFrom(content, 1)

\* ------------------------------------------------------------ the disk

\* SUPPORTED_ENCODINGS, in the order load_srt_file tries them.
SUPPORTED_ENCODINGS == <<"utf-8", "gbk", "gb2312", "utf-16">>

\* What open(..., encoding=e).read() raises for bytes e cannot decode.
UnicodeDecodeError == <<"UnicodeDecodeError">>

ContentA1 ==
  <<TS1, " ", ARROW, " ", TS2, NL, "H", "i", NL, NL,
    TS2, " ", ARROW, " ", TS1, NL, "h", "o", NL, NL>>
ContentA2 == <<TS1, ARROW, NL, "<", "i", ">", "o", "H", NL, NL>>
ContentB ==
  <<TS2, ARROW, NL, "h", "i", NL, NL, NL, TS1, ARROW, NL, "<", "b", ">", NL, NL>>
ContentNoBlankLine == <<TS1, ARROW, NL, "H", "i", NL>>

\* The files the user can pick in the file dialog: two directories, one
\* basename in both.
Paths == {"d1/a.srt", "d1/b.srt", "d1/bad.srt", "d1/empty.srt", "d2/a.srt"}

\* os.path.basename
Basename(path) ==
  CASE path \in {"d1/a.srt", "d2/a.srt"} -> "a.srt"
    [] path = "d1/b.srt" -> "b.srt"
    [] path = "d1/bad.srt" -> "bad.srt"
    [] OTHER -> "empty.srt"

\* os.path.dirname
Dirname(path) == IF path = "d2/a.srt" THEN "d2" ELSE "d1"

\* The position of an identifier in ascending lexical order (Python's str <).
LexRank(fn) ==
  CASE fn = "a.srt" -> 1
    [] fn = "b.srt" -> 2
    [] fn = "bad.srt" -> 3
    [] OTHER -> 4

\* What reading the file's bytes gives under each of SUPPORTED_ENCODINGS.
DiskRead(path) ==
  CASE path = "d1/a.srt" -> <<ContentA1, ContentA1, ContentA1, UnicodeDecodeError>>
    [] path = "d2/a.srt" -> <<UnicodeDecodeError, ContentA2, ContentA2, UnicodeDecodeError>>
    [] path = "d1/b.srt" -> <<ContentB, ContentB, ContentB, UnicodeDecodeError>>
    [] path = "d1/empty.srt" ->
         <<ContentNoBlankLine, ContentNoBlankLine, ContentNoBlankLine, UnicodeDecodeError>>
    [] OTHER -> <<UnicodeDecodeError, UnicodeDecodeError, UnicodeDecodeError, UnicodeDecodeError>>

\* ------------------------------------------------------------ the dict

\* subtitle_data is a Python dict: a sequence of entries in insertion order
\* where a deleted entry leaves a hole (Tombstone) until the next resize.
Tombstone == [fn |-> "", subs |-> <<>>]

\* The entries a dict's key table takes before an insert resizes (and
\* compacts) it.
DictUsable == 5

DictKeys(d) == {d[i].fn : i \in 1..Len(d)} \ {""}

\* len(d)
DictUsed(d) == Cardinality({i \in 1..Len(d) : d[i] # Tombstone})

\* d[k]
DictGet(d, k) == d[CHOOSE i \in 1..Len(d) : d[i].fn = k].subs

DictCompact(d) == SelectSeq(d, LAMBDA e : e # Tombstone)

\* d[k] = v
DictSet(d, k, v) ==
  IF k \in DictKeys(d)
  THEN [i \in 1..Len(d) |-> IF d[i].fn = k THEN [fn |-> k, subs |-> v] ELSE d[i]]
  ELSE IF Len(d) >= DictUsable
  THEN Append(DictCompact(d), [fn |-> k, subs |-> v])
  ELSE Append(d, [fn |-> k, subs |-> v])

\* del d[k]
DictDel(d, k) == [i \in 1..Len(d) |-> IF d[i].fn = k THEN Tombstone ELSE d[i]]

\* iter(d.items()): the iterator remembers len(d), its position and how many
\* items are left to give.
DictIter(d) == [used |-> DictUsed(d), pos |-> 1, len |-> DictUsed(d)]

\* The first index >= i of a live entry of d, or Len(d) + 1.
RECURSIVE SkipHoles(_, _)
SkipHoles(d, i) ==
  IF i <= Len(d) /\ d[i] = Tombstone THEN SkipHoles(d, i + 1) ELSE i

\* next(it) on the dict as it is now: an item, StopIteration, or RuntimeError
\* ("dictionary changed size during iteration", "dictionary keys changed
\* during iteration").
DictIterNext(d, it) ==
  IF it.used # DictUsed(d)
  THEN [kind |-> "RuntimeError", item |-> Tombstone, it |-> it]
  ELSE
    LET i == SkipHoles(d, it.pos) IN
    IF i > Len(d)
    THEN [kind |-> "StopIteration", item |-> Tombstone, it |-> it]
    ELSE IF it.len = 0
    THEN [kind |-> "RuntimeError", item |-> Tombstone, it |-> it]
    ELSE [kind |-> "item", item |-> d[i],
          it |-> [used |-> it.used, pos |-> i + 1, len |-> it.len - 1]]

\* ------------------------------------------------------- the translator
\* The texts of dialogs and sentinels are given in English.

\* What a provider call (_translate_azure, _translate_google_paid,
\* _translate_google_free, _translate_deepl) can end in: the translated text,
\* a returned value that is no text, requests' Timeout, another
\* RequestException, a response without the expected fields (ValueError), or
\* another exception of the extraction.
ProviderOutcomes ==
  {"ok", "NotText", "Timeout", "RequestException", "ValueError", "KeyError", "TypeError"}

SentinelNoService == <<"[select and configure a translation service first]">>
SentinelEmptyText == <<"[empty text, nothing to translate]">>
SentinelAzureConfig == <<"[Azure Key/Region not configured]">>
SentinelGoogleConfig == <<"[Google API Key not configured]">>
SentinelDeepLConfig == <<"[DeepL Key not configured]">>
SentinelUnknownService == <<"[unknown translation service]">>
SentinelNetwork == <<"[translation network error]">>
SentinelFormat == <<"[translation service returned an error]">>
SentinelUnknown == <<"[unknown error while translating]">>

\* A value that is not a str (None, a number, a list, a dict).
PyNone == <<"None">>

\* Decoded JSON values: a string, null, a number, a list and a dict; NotJson
\* is a body response.json() cannot decode.
JStr == [t |-> "str"]
JNull == [t |-> "null"]
JNum == [t |-> "num"]
JList(items) == [t |-> "list", v |-> items]
JDict(fields) == [t |-> "dict", v |-> fields]
NotJson == [t |-> "notjson"]

\* `key in x`: TypeError when x is not a container; our lists and strings
\* never hold the key itself.
PyInRaises(x) == x.t \in {"null", "num"}
PyIn(key, x) == x.t = "dict" /\ key \in DOMAIN x.v
PyIsNonEmptyList(x) == x.t = "list" /\ x.v # <<>>

\* `return x[key]` once `key in x` was true: the leaf as it is.
Leaf(x) == IF x.t = "str" THEN "ok" ELSE "NotText"

\* The last test and the return of the three keyed variants: the first
\* element e of the translations list holds `key`.
LeafOf(e, key) ==
  IF PyInRaises(e) THEN "TypeError"
  ELSE IF ~PyIn(key, e) THEN "ValueError"
  ELSE Leaf(e.v[key])

\* `isinstance(tr, list) and tr and key in tr[0]`, then the return.
TranslationsOf(tr, key) ==
  IF ~PyIsNonEmptyList(tr) THEN "ValueError" ELSE LeafOf(tr.v[1], key)

\* `'translations' in x and ...` of a value x.
UnderTranslations(x, key) ==
  IF PyInRaises(x) THEN "TypeError"
  ELSE IF ~PyIn("translations", x) THEN "ValueError"
  ELSE TranslationsOf(x.v.translations, key)

ExtractAzure(data) ==
  IF ~PyIsNonEmptyList(data) THEN "ValueError"
  ELSE UnderTranslations(data.v[1], "text")

ExtractGooglePaid(data) ==
  IF PyInRaises(data) THEN "TypeError"
  ELSE IF ~PyIn("data", data) THEN "ValueError"
  ELSE UnderTranslations(data.v.data, "translatedText")

ExtractDeepL(data) == UnderTranslations(data, "text")

\* `item and item[0]` and the join of item[0], for one item of data[0]:
\* "skip" when the item is left out, "str" when it joins.
FreeItem(item) ==
  CASE item.t = "null" -> "skip"
    [] item.t = "num" -> "TypeError"
    [] item.t = "str" -> "str"
    [] item.t = "dict" -> IF DOMAIN item.v = {} THEN "skip" ELSE "KeyError"
    [] item.t = "list" ->
         IF item.v = <<>> THEN "skip"
         ELSE CASE item.v[1].t = "null" -> "skip"
                [] item.v[1].t = "str" -> "str"
                [] OTHER -> "TypeError"

\* The generator over data[0]: the first item that raises ends it.
RECURSIVE FreeItems(_, _, _)
FreeItems(items, i, joined) ==
  IF i > Len(items) THEN (IF joined THEN "ok" ELSE "ValueError")
  ELSE LET r == FreeItem(items[i]) IN
       IF r \in {"TypeError", "KeyError"} THEN r
       ELSE FreeItems(items, i + 1, joined \/ r = "str")

\* The try block of _translate_google_free; IndexError and TypeError become
\* ValueError, a KeyError leaves the function.
ExtractGoogleFree(data) ==
  CASE data.t = "dict" -> "KeyError"
    [] data.t \in {"null", "num"} -> "ValueError"
    [] data.t = "str" -> "ok"
    [] data.t = "list" ->
         IF data.v = <<>> THEN "ValueError"
         ELSE LET d0 == data.v[1] IN
              CASE d0.t \in {"null", "num"} -> "ValueError"
                [] d0.t = "str" -> "ok"
                [] d0.t = "dict" -> IF DOMAIN d0.v = {} THEN "ValueError" ELSE "ok"
                [] d0.t = "list" ->
                     LET r == FreeItems(d0.v, 1, FALSE) IN
                     IF r = "TypeError" THEN "ValueError" ELSE r

Variants == {"_translate_azure", "_translate_google_paid",
             "_translate_google_free", "_translate_deepl"}

\* What _make_request ends in.
Transports == {"ok", "Timeout", "RequestException"}

\* json.dumps(template).replace('{text}', text) is no JSON when the text
\* holds a quote or a backslash.
BreaksJson(text) == \E i \in 1..Len(text) : text[i] \in {"\"", "\\"}

\* A provider call: the request, response.json() and the extraction.
ProviderCall(variant, text, transport, data) ==
  IF variant = "_translate_azure" /\ BreaksJson(text) THEN "ValueError"
  ELSE IF transport # "ok" THEN transport
  ELSE IF data.t = "notjson" THEN "ValueError"
  ELSE CASE variant = "_translate_azure" -> ExtractAzure(data)
         [] variant = "_translate_google_paid" -> ExtractGooglePaid(data)
         [] variant = "_translate_google_free" -> ExtractGoogleFree(data)
         [] variant = "_translate_deepl" -> ExtractDeepL(data)

\* The text a provider returns for `text`.
Translated(text) == <<"zh:">> \o text

\* The try block of translate once a provider is called with `outcome`.
TranslateVia(text, outcome) ==
  CASE outcome = "ok" -> Translated(text)
    [] outcome = "NotText" -> PyNone
    [] outcome \in {"Timeout", "RequestException"} -> SentinelNetwork
    [] outcome \in {"ValueError", "KeyError"} -> SentinelFormat
    [] OTHER -> SentinelUnknown

\* Whether TranslatorService.translate(text) under configuration cfg reaches a
\* provider call (a network request).
TranslateCalls(cfg, text) ==
  /\ cfg.current_service # ""
  /\ text # <<>> /\ ~IsSpaceStr(text)
  /\ \/ cfg.current_service = "Azure" /\ cfg.azure_key # "" /\ cfg.azure_region # ""
     \/ cfg.current_service = "Google" /\ cfg.google_key # ""
     \/ cfg.current_service = "DeepL" /\ cfg.deepl_key # ""
  /\ ~(cfg.current_service = "Azure" /\ BreaksJson(text))

\* translate without the test of line 150 for an empty text.
TranslateUnchecked(cfg, text, outcome) ==
  IF cfg.current_service = "" THEN SentinelNoService
  ELSE IF cfg.current_service = "Azure"
  THEN IF cfg.azure_key = "" \/ cfg.azure_region = ""
       THEN SentinelAzureConfig ELSE TranslateVia(text, outcome)
  ELSE IF cfg.current_service = "Google"
  THEN IF cfg.google_key # ""
       THEN TranslateVia(text, outcome) ELSE SentinelGoogleConfig
  ELSE IF cfg.current_service = "DeepL"
  THEN IF cfg.deepl_key = ""
       THEN SentinelDeepLConfig ELSE TranslateVia(text, outcome)
  ELSE SentinelUnknownService

\* TranslatorService.translate(text) under configuration cfg, the provider
\* call (if one is made) ending in `outcome`.
Translate(cfg, text, outcome) ==
  IF cfg.current_service = "" THEN SentinelNoService
  ELSE IF text = <<>> \/ IsSpaceStr(text) THEN SentinelEmptyText
  ELSE IF cfg.current_service = "Azure"
  THEN IF cfg.azure_key = "" \/ cfg.azure_region = ""
       THEN SentinelAzureConfig ELSE TranslateVia(text, outcome)
  ELSE IF cfg.current_service = "Google"
  THEN IF cfg.google_key # ""
       THEN TranslateVia(text, outcome) ELSE SentinelGoogleConfig
  ELSE IF cfg.current_service = "DeepL"
  THEN IF cfg.deepl_key = ""
       THEN SentinelDeepLConfig ELSE TranslateVia(text, outcome)
  ELSE SentinelUnknownService

\* Whether TranslatorService.test_api(service, **kwargs) reaches a provider
\* call: kw holds the keys test_api ends up with (kwargs over the saved ones).
TestApiCalls(service, kw) ==
  \/ service = "Azure" /\ kw.azure_key # "" /\ kw.azure_region # ""
  \/ service = "Google"
  \/ service = "DeepL" /\ kw.deepl_key # ""

\* ------------------------------------------------------------- the state

\* The tasks that can be in flight at once: a task is in flight from the
\* start of its thread until the main loop has run its last callback.
MaxThreads == 2
\* The files of one file-dialog selection.
MaxBatch == 2

ThreadIds == 1..MaxThreads

VARIABLES
  subtitle_data,      \* the dict filename -> [(start_time, text), ...]
  search_results,     \* the list [(filename, start_time, text), ...]
  search_button,      \* "normal" or "disabled"
  translate_btn,
  translate_all_btn,
  cursor,             \* "", "watch" or "wait"
  result_text,        \* what the result area shows: "empty", "nomatch",
                      \* "results" or "translations"
  active_thread,      \* _active_thread: 0 is None (or unset), -1 a thread
                      \* that has ended, else the id of a live thread
  threads,            \* the worker threads, by id
  after_queue,        \* the callbacks given to window.after(0, ...), in order
  translator,         \* the TranslatorService's configuration
  ev                  \* what the last step showed or sent: the handler, the
                      \* dialog it raised, the network request it made

vars ==
  <<subtitle_data, search_results, search_button, translate_btn,
    translate_all_btn, cursor, result_text, active_thread, threads,
    after_queue, translator, ev>>

NoIter == [used |-> 0, pos |-> 0, len |-> 0]

\* A thread id that is not in use.
FreeThread ==
  [kind |-> "free", pc |-> "", query |-> <<>>, it |-> NoIter, temp |-> <<>>,
   src |-> <<>>, alias |-> FALSE, idx |-> 0, snap |-> <<>>]

Alive(t) == threads[t].kind # "free"

\* The tasks whose thread has ended and whose last callback is still to run.
Pending ==
  Cardinality({i \in 1..Len(after_queue) :
                 after_queue[i].cb \in {"update_ui_after_search", "restore_ui"}})

InFlight == Cardinality({t \in ThreadIds : Alive(t)}) + Pending

\* The id a new thread gets: the lowest free one, or 0 when MaxThreads tasks
\* are in flight.
NewThreadId ==
  IF InFlight < MaxThreads
  THEN CHOOSE t \in ThreadIds : ~Alive(t) /\ \A u \in ThreadIds : u < t => Alive(u)
  ELSE 0

\* What a handler or step shows or sends: the warning or error dialog it
\* raises (box; information and yes/no dialogs are not recorded), the files
\* and the query it was given, the error list of a load, who made a network
\* request ("control", "worker", or "caller" for a call of translate on its
\* own), the loaded_count of a load, and what a call of translate returned.
Event(op, files, query, box, errs, net, loaded, out) ==
  [op |-> op, files |-> files, query |-> query, box |-> box, errs |-> errs,
   net |-> net, loaded |-> loaded, out |-> out]

\* A step that shows nothing and sends nothing.
Quiet == Event("", <<>>, <<>>, "", <<>>, "", 0, <<>>)

DefaultConfig ==
  [current_service |-> "", azure_key |-> "", azure_region |-> "",
   google_key |-> "", deepl_key |-> ""]

\* SubtitleSearcher.__init__ (with no saved configuration file)
Init ==
  /\ subtitle_data = <<>>
  /\ search_results = <<>>
  /\ search_button = "normal"
  /\ translate_btn = "disabled"
  /\ translate_all_btn = "disabled"
  /\ cursor = ""
  /\ result_text = "empty"
  /\ active_thread = 0
  /\ threads = [t \in ThreadIds |-> FreeThread]
  /\ after_queue = <<>>
  /\ translator = DefaultConfig
  /\ ev = Quiet

\* ------------------------------------------------------------- loading

\* The decoding loop of load_srt_file: the content under the first encoding
\* that decodes, or UnicodeDecodeError when none does (content is None).
RECURSIVE Decode(_, _)
Decode(path, i) ==
  IF i > Len(SUPPORTED_ENCODINGS) THEN UnicodeDecodeError
  ELSE IF DiskRead(path)[i] # UnicodeDecodeError THEN DiskRead(path)[i]
  ELSE Decode(path, i + 1)

\* The content load_srt_file reads from each file, and the list `subtitles`
\* its parsing loop builds from it.
DiskContent == [path \in Paths |-> Decode(path, 1)]
DiskSubtitles ==
  [path \in Paths |->
     IF DiskContent[path] = UnicodeDecodeError THEN <<>>
     ELSE ParseSrt(DiskContent[path])]

\* load_srt_file without the check of lines 563-564: a file that parses to no
\* entry is stored with an empty list.
load_srt_file_unchecked(d, path) ==
  LET content == DiskContent[path] IN
  IF content = UnicodeDecodeError
  THEN [data |-> d, error |-> "cannot decode the file with a supported encoding"]
  ELSE [data |-> DictSet(d, Basename(path), DiskSubtitles[path]), error |-> ""]

\* load_srt_file(file_path) on dict d: the dict after, and the ValueError it
\* raised ("" when it returned).
load_srt_file(d, path) ==
  LET content == DiskContent[path] IN
  IF content = UnicodeDecodeError
  THEN [data |-> d, error |-> "cannot decode the file with a supported encoding"]
  ELSE
    LET subtitles == DiskSubtitles[path] IN
    IF subtitles # <<>>
    THEN [data |-> DictSet(d, Basename(path), subtitles), error |-> ""]
    ELSE [data |-> d, error |-> "no valid subtitle entry parsed"]

\* The loop of select_files without the test of lines 479-481: a file whose
\* name is loaded already is loaded again, over the stored entries.
RECURSIVE LoadLoopNoSkip(_, _, _, _, _)
LoadLoopNoSkip(files, i, d, loaded_count, error_files) ==
  IF i > Len(files)
  THEN [data |-> d, loaded_count |-> loaded_count, error_files |-> error_files]
  ELSE
    LET r == load_srt_file(d, files[i]) IN
    IF r.error = ""
    THEN LoadLoopNoSkip(files, i + 1, r.data, loaded_count + 1, error_files)
    ELSE LoadLoopNoSkip(files, i + 1, d, loaded_count,
                        Append(error_files, Basename(files[i])))

\* The loop of select_files with the try around the whole loop instead of
\* around one file: the first failure ends the batch.
RECURSIVE LoadLoopAbort(_, _, _, _, _)
LoadLoopAbort(files, i, d, loaded_count, error_files) ==
  IF i > Len(files)
  THEN [data |-> d, loaded_count |-> loaded_count, error_files |-> error_files]
  ELSE
    LET filename == Basename(files[i]) IN
    IF filename \in DictKeys(d)
    THEN LoadLoopAbort(files, i + 1, d, loaded_count, error_files)
    ELSE
      LET r == load_srt_file(d, files[i]) IN
      IF r.error = ""
      THEN LoadLoopAbort(files, i + 1, r.data, loaded_count + 1, error_files)
      ELSE [data |-> d, loaded_count |-> loaded_count,
            error_files |-> Append(error_files, filename)]

\* The for loop of select_files from file i on: the dict, loaded_count and
\* error_files it ends with.
RECURSIVE LoadLoop(_, _, _, _, _)
LoadLoop(files, i, d, loaded_count, error_files) ==
  IF i > Len(files)
  THEN [data |-> d, loaded_count |-> loaded_count, error_files |-> error_files]
  ELSE
    LET filename == Basename(files[i]) IN
    IF filename \in DictKeys(d)
    THEN LoadLoop(files, i + 1, d, loaded_count, error_files)
    ELSE
      LET r == load_srt_file(d, files[i]) IN
      IF r.error = ""
      THEN LoadLoop(files, i + 1, r.data, loaded_count + 1, error_files)
      ELSE LoadLoop(files, i + 1, d, loaded_count,
                    Append(error_files, filename))

\* What askopenfilenames can return: distinct files of one directory, in any
\* order, or nothing (the dialog was cancelled).
Batches(n) ==
  {fs \in UNION {[1..k -> Paths] : k \in 0..n} :
     /\ \A i, j \in 1..Len(fs) : i # j => fs[i] # fs[j]
     /\ \A i, j \in 1..Len(fs) : Dirname(fs[i]) = Dirname(fs[j])}

\* select_files()
select_files(files) ==
  /\ IF files = <<>>
     THEN /\ UNCHANGED subtitle_data
          /\ ev' = Event("select_files", files, <<>>, "", <<>>, "", 0, <<>>)
     ELSE
       LET r == LoadLoop(files, 1, subtitle_data, 0, <<>>) IN
       /\ subtitle_data' = r.data
       /\ ev' = Event("select_files", files, <<>>,
                      IF r.error_files # <<>> THEN "load error" ELSE "",
                      r.error_files, "", r.loaded_count, <<>>)
  /\ UNCHANGED <<search_results, search_button, translate_btn,
                 translate_all_btn, cursor, result_text, active_thread,
                 threads, after_queue, translator>>

\* list.clear() on the list self.search_results names: a translate-all
\* worker iterating that same list sees it emptied.
ClearedInPlace(ths) ==
  [t \in ThreadIds |->
     IF ths[t].alias THEN [ths[t] EXCEPT !.src = <<>>] ELSE ths[t]]

\* self.search_results = <a new list>: the workers keep the old list.
Rebound(ths) == [t \in ThreadIds |-> [ths[t] EXCEPT !.alias = FALSE]]

\* clear_search_results()
clear_search_results ==
  /\ search_results' = <<>>
  /\ threads' = ClearedInPlace(threads)
  /\ result_text' = "empty"
  /\ translate_btn' = "disabled"
  /\ translate_all_btn' = "disabled"

RECURSIVE DeleteAll(_, _)
DeleteAll(d, names) ==
  IF names = {} THEN d
  ELSE LET k == CHOOSE k \in names : TRUE IN DeleteAll(DictDel(d, k), names \ {k})

\* delete_selected(): selected are the rows selected in the file list, yes
\* the answer to the confirmation.
delete_selected(selected, yes) ==
  /\ selected \subseteq DictKeys(subtitle_data)
  /\ IF selected = {}
     THEN /\ ev' = Event("delete_selected", <<>>, <<>>, "select the files to delete first", <<>>, "", 0, <<>>)
          /\ UNCHANGED <<subtitle_data, search_results, threads, result_text,
                         translate_btn, translate_all_btn>>
     ELSE IF yes
     THEN /\ subtitle_data' = DeleteAll(subtitle_data, selected)
          /\ clear_search_results
          /\ ev' = Quiet
     ELSE /\ ev' = Quiet
          /\ UNCHANGED <<subtitle_data, search_results, threads, result_text,
                         translate_btn, translate_all_btn>>
  /\ UNCHANGED <<search_button, cursor, active_thread, after_queue, translator>>

\* clear_all()
clear_all(yes) ==
  /\ IF subtitle_data = <<>> \/ DictUsed(subtitle_data) = 0
     THEN /\ ev' = Quiet
          /\ UNCHANGED <<subtitle_data, search_results, threads, result_text,
                         translate_btn, translate_all_btn>>
     ELSE IF yes
     THEN /\ subtitle_data' = <<>>
          /\ clear_search_results
          /\ ev' = Quiet
     ELSE /\ ev' = Quiet
          /\ UNCHANGED <<subtitle_data, search_results, threads, result_text,
                         translate_btn, translate_all_btn>>
  /\ UNCHANGED <<search_button, cursor, active_thread, after_queue, translator>>

\* ------------------------------------------------------------ searching

\* The inner loop of search_task over one file: its matches, in entry order.
RECURSIVE FileMatches(_, _, _, _)
FileMatches(filename, subtitles, i, query_lower) ==
  IF i > Len(subtitles) THEN <<>>
  ELSE
    (IF Contains(Lower(subtitles[i][2]), query_lower)
     THEN << <<filename, subtitles[i][1], subtitles[i][2]>> >>
     ELSE <<>>) \o FileMatches(filename, subtitles, i + 1, query_lower)

\* search_task run from start to end over dict d with nothing changing d.
RECURSIVE SearchCorpus(_, _, _)
SearchCorpus(d, i, query_lower) ==
  IF i > Len(d) THEN <<>>
  ELSE
    (IF d[i] = Tombstone THEN <<>>
     ELSE FileMatches(d[i].fn, d[i].subs, 1, query_lower))
    \o SearchCorpus(d, i + 1, query_lower)

\* The thread has ended: its id is free again, and _active_thread, if it
\* names this thread, names a thread that is not alive.
Ended(ths, t) == [ths EXCEPT ![t] = FreeThread]

ActiveAfterEnd(t) == IF active_thread = t THEN -1 ELSE active_thread

\* search() testing the entry's content as typed, without strip().
search_unstripped(via, text) ==
  LET query == text IN
  /\ via = "button" => search_button = "normal"
  /\ IF query = <<>>
     THEN /\ ev' = Event("search", <<>>, text, "enter a search keyword", <<>>, "", 0, <<>>)
          /\ UNCHANGED <<search_results, search_button, cursor, threads>>
     ELSE IF DictUsed(subtitle_data) = 0
     THEN /\ ev' = Event("search", <<>>, text, "add SRT files first", <<>>, "", 0, <<>>)
          /\ UNCHANGED <<search_results, search_button, cursor, threads>>
     ELSE
       /\ NewThreadId # 0
       /\ cursor' = "watch"
       /\ search_button' = "disabled"
       /\ search_results' = <<>>
       /\ threads' =
            [ClearedInPlace(threads) EXCEPT ![NewThreadId] =
               [FreeThread EXCEPT
                  !.kind = "search", !.pc = "start", !.query = query,
                  !.snap = SearchCorpus(subtitle_data, 1, Lower(query))]]
       /\ ev' = Event("search", <<>>, text, "", <<>>, "", 0, <<>>)
  /\ UNCHANGED <<subtitle_data, translate_btn, translate_all_btn, result_text,
                 active_thread, after_queue, translator>>

\* search(): via is "button" (the search button, which must be enabled to be
\* clicked) or "return" (the <Return> binding of the entry); text is the
\* entry's content.
search(via, text) ==
  LET query == Strip(text) IN
  /\ via = "button" => search_button = "normal"
  /\ IF query = <<>>
     THEN /\ ev' = Event("search", <<>>, text, "enter a search keyword", <<>>, "", 0, <<>>)
          /\ UNCHANGED <<search_results, search_button, cursor, threads>>
     ELSE IF DictUsed(subtitle_data) = 0
     THEN /\ ev' = Event("search", <<>>, text, "add SRT files first", <<>>, "", 0, <<>>)
          /\ UNCHANGED <<search_results, search_button, cursor, threads>>
     ELSE
       /\ NewThreadId # 0
       /\ cursor' = "watch"
       /\ search_button' = "disabled"
       /\ search_results' = <<>>
       /\ threads' =
            [ClearedInPlace(threads) EXCEPT ![NewThreadId] =
               [FreeThread EXCEPT
                  !.kind = "search", !.pc = "start", !.query = query,
                  !.snap = SearchCorpus(subtitle_data, 1, Lower(query))]]
       /\ ev' = Event("search", <<>>, text, "", <<>>, "", 0, <<>>)
  /\ UNCHANGED <<subtitle_data, translate_btn, translate_all_btn, result_text,
                 active_thread, after_queue, translator>>

Callback(cb, data, snap) == [cb |-> cb, data |-> data, snap |-> snap]

\* One turn of the for loop of search_task in thread t (the first one makes
\* the iterator): a file's matches are added, or the loop ends and the thread
\* hands update_ui_after_search to window.after, or the dict iterator raises
\* and the thread ends with nothing handed over.
search_task(t) ==
  /\ threads[t].kind = "search"
  /\ LET th == threads[t]
         it == IF th.pc = "start" THEN DictIter(subtitle_data) ELSE th.it
         r == DictIterNext(subtitle_data, it)
     IN
     CASE r.kind = "item" ->
            /\ threads' =
                 [threads EXCEPT ![t] =
                    [th EXCEPT
                       !.pc = "run", !.it = r.it,
                       !.temp = th.temp \o
                         FileMatches(r.item.fn, r.item.subs, 1, Lower(th.query))]]
            /\ UNCHANGED <<after_queue, active_thread>>
            /\ ev' = Quiet
       [] r.kind = "StopIteration" ->
            /\ threads' = Ended(threads, t)
            /\ active_thread' = ActiveAfterEnd(t)
            /\ after_queue' =
                 Append(after_queue,
                        Callback("update_ui_after_search", th.temp, th.snap))
            /\ ev' = Quiet
       [] OTHER ->
            /\ threads' = Ended(threads, t)
            /\ active_thread' = ActiveAfterEnd(t)
            /\ UNCHANGED after_queue
            /\ ev' = Event("search_task", <<>>, <<>>, "RuntimeError", <<>>, "", 0, <<>>)
  /\ UNCHANGED <<subtitle_data, search_results, search_button, translate_btn,
                 translate_all_btn, cursor, result_text, translator>>

\* update_ui_after_search(), run by the main loop
update_ui_after_search(c) ==
  /\ search_results' = c.data
  /\ threads' = Rebound(threads)
  /\ result_text' = IF c.data = <<>> THEN "nomatch" ELSE "results"
  /\ translate_btn' = IF c.data = <<>> THEN "disabled" ELSE "normal"
  /\ translate_all_btn' = IF c.data = <<>> THEN "disabled" ELSE "normal"
  /\ cursor' = ""
  /\ search_button' = "normal"
  /\ UNCHANGED active_thread

\* --------------------------------------------------------- translating

\* _run_threaded_task(task_func, ...): kind is the task ("selected" or
\* "all"), text the text a "selected" task translates.
run_threaded_task(op, kind, text) ==
  IF active_thread <= 0
  THEN /\ NewThreadId # 0
       /\ translate_btn' = "disabled"
       /\ translate_all_btn' = "disabled"
       /\ search_button' = "disabled"
       /\ cursor' = "wait"
       /\ threads' =
            [threads EXCEPT ![NewThreadId] =
               [FreeThread EXCEPT
                  !.kind = kind, !.pc = "start", !.query = text,
                  !.snap = search_results]]
       /\ active_thread' = NewThreadId
       /\ ev' = Quiet
  ELSE /\ ev' = Event(op, <<>>, <<>>, "another operation is in progress", <<>>, "", 0, <<>>)
       /\ UNCHANGED <<translate_btn, translate_all_btn, search_button, cursor,
                      threads, active_thread>>

\* What the user can have selected in the result area: nothing, blanks, or
\* a text.
Selections == {<<>>, <<" ">>, <<"H", "i">>}

\* translate_selected_wrapper(), on a click of the (enabled) button
translate_selected_wrapper(selected_text) ==
  /\ translate_btn = "normal"
  /\ selected_text # <<>> => result_text # "empty"
  /\ IF selected_text = <<>>
     THEN /\ ev' = Quiet
          /\ UNCHANGED <<translate_btn, translate_all_btn, search_button,
                         cursor, threads, active_thread>>
     ELSE IF IsSpaceStr(selected_text)
     THEN /\ ev' = Quiet
          /\ UNCHANGED <<translate_btn, translate_all_btn, search_button,
                         cursor, threads, active_thread>>
     ELSE run_threaded_task("translate_selected", "selected", selected_text)
  /\ UNCHANGED <<subtitle_data, search_results, result_text, after_queue,
                 translator>>

\* translate_all_wrapper(), on a click of the (enabled) button; yes is the
\* answer to the confirmation.
translate_all_wrapper(yes) ==
  /\ translate_all_btn = "normal"
  /\ IF search_results = <<>>
     THEN /\ ev' = Quiet
          /\ UNCHANGED <<translate_btn, translate_all_btn, search_button,
                         cursor, threads, active_thread>>
     ELSE IF yes
     THEN run_threaded_task("translate_all", "all", <<>>)
     ELSE /\ ev' = Quiet
          /\ UNCHANGED <<translate_btn, translate_all_btn, search_button,
                         cursor, threads, active_thread>>
  /\ UNCHANGED <<subtitle_data, search_results, result_text, after_queue,
                 translator>>

NetBy(who, calls) == IF calls THEN who ELSE ""

\* task_wrapper around _translate_and_insert in thread t: the text is
\* translated, update_text_area and then restore_ui are handed to
\* window.after, and the thread ends.
translate_and_insert(t, outcome) ==
  /\ threads[t].kind = "selected"
  /\ LET th == threads[t]
         translated == Translate(translator, th.query, outcome)
     IN
     /\ after_queue' =
          after_queue \o
          <<Callback("update_text_area", <<translated>>, <<>>),
            Callback("restore_ui", <<>>, <<>>)>>
     /\ ev' = Event("translate_and_insert", <<>>, <<>>, "", <<>>,
                    NetBy("worker", TranslateCalls(translator, th.query)), 0, <<>>)
  /\ threads' = Ended(threads, t)
  /\ active_thread' = ActiveAfterEnd(t)
  /\ UNCHANGED <<subtitle_data, search_results, search_button, translate_btn,
                 translate_all_btn, cursor, result_text, translator>>

\* task_wrapper around _translate_all_results in thread t. Its first step
\* takes the list self.search_results names; then one turn of the for loop
\* translates the next record of that list; when the list is exhausted
\* update_ui_with_all_translations and restore_ui are handed to window.after
\* and the thread ends.
translate_all_results(t, outcome) ==
  /\ threads[t].kind = "all"
  /\ LET th == threads[t] IN
     IF th.pc = "start"
     THEN /\ threads' =
               [threads EXCEPT ![t] =
                  [th EXCEPT !.pc = "run", !.src = search_results,
                             !.alias = TRUE, !.idx = 1]]
          /\ UNCHANGED <<after_queue, active_thread>>
          /\ ev' = Quiet
     ELSE IF th.idx <= Len(th.src)
     THEN
       LET rec == th.src[th.idx]
           translated == Translate(translator, rec[3], outcome)
       IN
       /\ threads' =
            [threads EXCEPT ![t] =
               [th EXCEPT
                  !.idx = th.idx + 1,
                  !.temp = Append(th.temp, <<rec[1], rec[2], rec[3], translated>>)]]
       /\ UNCHANGED <<after_queue, active_thread>>
       /\ ev' = Event("translate_all_results", <<>>, <<>>, "", <<>>,
                      NetBy("worker", TranslateCalls(translator, rec[3])), 0, <<>>)
     ELSE
         /\ after_queue' =
            after_queue \o
            <<Callback("update_ui_with_all_translations", th.temp, th.snap),
              Callback("restore_ui", <<>>, <<>>)>>
       /\ threads' = Ended(threads, t)
       /\ active_thread' = ActiveAfterEnd(t)
       /\ ev' = Quiet
  /\ UNCHANGED <<subtitle_data, search_results, search_button, translate_btn,
                 translate_all_btn, cursor, result_text, translator>>

\* restore_ui(), run by the main loop
restore_ui ==
  /\ translate_btn' = IF search_results # <<>> THEN "normal" ELSE "disabled"
  /\ translate_all_btn' = IF search_results # <<>> THEN "normal" ELSE "disabled"
  /\ search_button' = "normal"
  /\ cursor' = ""
  /\ active_thread' = 0
  /\ UNCHANGED <<search_results, threads, result_text>>

\* update_ui_with_all_translations(), run by the main loop
update_ui_with_all_translations ==
  /\ result_text' = "translations"
  /\ UNCHANGED <<search_results, threads, translate_btn, translate_all_btn,
                 search_button, cursor, active_thread>>

\* update_text_area(), run by the main loop: the translation is inserted
\* after the selection (or not, when the selection changed); what the result
\* area shows stays of the same kind.
update_text_area ==
  UNCHANGED <<search_results, threads, result_text, translate_btn,
              translate_all_btn, search_button, cursor, active_thread>>

\* The main loop runs the oldest callback given to window.after(0, ...).
run_after ==
  /\ after_queue # <<>>
  /\ LET c == Head(after_queue) IN
     CASE c.cb = "update_ui_after_search" -> update_ui_after_search(c)
       [] c.cb = "restore_ui" -> restore_ui
       [] c.cb = "update_ui_with_all_translations" ->
            update_ui_with_all_translations
       [] OTHER -> update_text_area
  /\ ev' = Quiet
  /\ after_queue' = Tail(after_queue)
  /\ UNCHANGED <<subtitle_data, translator>>

\* ------------------------------------------------------------ settings

Services == {"Azure", "Google", "DeepL"}
KeyValues == {"", "k"}

\* test_api_from_settings(service, ...), the handler of a test button of the
\* settings window: the entries hold key and region (region is used for
\* Azure only).
test_api_from_settings(service, key, region) ==
  /\ LET kw == [azure_key |-> IF service = "Azure" THEN key ELSE translator.azure_key,
                azure_region |-> IF service = "Azure" THEN region
                                 ELSE translator.azure_region,
                google_key |-> IF service = "Google" THEN key
                               ELSE translator.google_key,
                deepl_key |-> IF service = "DeepL" THEN key ELSE translator.deepl_key]
     IN ev' = Event("test_api", <<>>, <<>>, "", <<>>,
                    NetBy("control", TestApiCalls(service, kw)), 0, <<>>)
  /\ UNCHANGED <<subtitle_data, search_results, search_button, translate_btn,
                 translate_all_btn, cursor, result_text, active_thread,
                 threads, after_queue, translator>>

\* What the settings window can hold when it is saved.
Settings ==
  {[current_service |-> s, azure_key |-> k, azure_region |-> k,
    google_key |-> k, deepl_key |-> k] : s \in Services \cup {""}, k \in KeyValues}

\* save_settings()
save_settings(config) ==
  /\ translator' = config
  /\ ev' = Quiet
  /\ UNCHANGED <<subtitle_data, search_results, search_button, translate_btn,
                 translate_all_btn, cursor, result_text, active_thread,
                 threads, after_queue>>

\* ------------------------------------------------------ specifications

\* The handlers of the file buttons, the file dialog giving one of batches.
CorpusStep(batches) ==
  \/ \E files \in batches : select_files(files)
  \/ \E selected \in SUBSET DictKeys(subtitle_data), yes \in BOOLEAN :
       delete_selected(selected, yes)
  \/ \E yes \in BOOLEAN : clear_all(yes)

\* A search request with one of queries in the entry, a step of a search
\* thread, or the main loop running a callback.
SearchStep(queries) ==
  \/ \E via \in {"button", "return"}, text \in queries : search(via, text)
  \/ \E t \in ThreadIds : search_task(t)
  \/ run_after

\* A translation request, a step of a translation thread whose provider
\* call ends in one of outcomes, or a handler of the settings window: a test
\* button with one of tests (service, key, region) in the entries, or a save
\* of one of settings.
TranslateStep(settings, tests, outcomes) ==
  \/ \E selected_text \in Selections : translate_selected_wrapper(selected_text)
  \/ \E yes \in BOOLEAN : translate_all_wrapper(yes)
  \/ \E t \in ThreadIds, outcome \in outcomes : translate_and_insert(t, outcome)
  \/ \E t \in ThreadIds, outcome \in outcomes : translate_all_results(t, outcome)
  \/ \E test \in tests : test_api_from_settings(test[1], test[2], test[3])
  \/ \E config \in settings : save_settings(config)

\* The whole user interface over one loadable file, one query and the
\* Google settings.
UiBatches == {<<"d1/a.srt">>}
UiQueries == {<<>>, <<" ">>, <<"h">>}
UiTests == {<<"Google", "", "">>, <<"DeepL", "", "">>}
UiSettings == {c \in Settings : c.current_service = "Google" /\ c.google_key # ""}
UiOutcomes == {"ok"}

Next ==
  \/ CorpusStep(UiBatches)
  \/ SearchStep(UiQueries)
  \/ TranslateStep(UiSettings, UiTests, UiOutcomes)

Spec == Init /\ [][Next]_vars

\* Loading and removing alone, over selections of up to MaxBatch files.
CorpusBatches == Batches(MaxBatch)

NextCorpus == CorpusStep(CorpusBatches)

SpecCorpus == Init /\ [][NextCorpus]_vars

\* Loading, removing and searching with no translation and one search at a
\* time (the user waits for a search to be handed over before the next
\* request), over selections of one of three files.
SearchPaths == {"d1/a.srt", "d1/b.srt", "d1/empty.srt"}
SearchBatches == {<<path>> : path \in SearchPaths}
SearchQueries == {<<>>, <<" ">>, <<"h">>}

NextSearch ==
  \/ CorpusStep(SearchBatches)
  \/ SearchStep(SearchQueries) /\ InFlight' <= 1

SpecSearch == Init /\ [][NextSearch]_vars

\* The search application with its scheduling: a thread that can take a step
\* is given one in the end, and the main loop runs the callbacks handed to
\* window.after. The user owes no step.
SpecSearchLive ==
  /\ SpecSearch
  /\ WF_vars(\E t \in ThreadIds : search_task(t))
  /\ WF_vars(run_after)

\* ----------------------------------------- the translator as a function

\* The provider function translate calls for the selected service.
VariantOf(cfg) ==
  CASE cfg.current_service = "Azure" -> "_translate_azure"
    [] cfg.current_service = "Google" -> "_translate_google_paid"
    [] cfg.current_service = "DeepL" -> "_translate_deepl"
    [] OTHER -> ""

\* Decoded response bodies: the well-formed ones of Azure, Google (paid and
\* free) and DeepL, and bodies with a missing key, a wrong type or an empty
\* array at some level.
Responses ==
  << JList(<<JDict([translations |-> JList(<<JDict([text |-> JStr])>>)])>>),
     JDict([data |-> JDict([translations |-> JList(<<JDict([translatedText |-> JStr])>>)])]),
     JDict([translations |-> JList(<<JDict([text |-> JStr])>>)]),
     JList(<<JList(<<JList(<<JStr, JStr>>)>>)>>),
     NotJson,
     JNull,
     JList(<<>>),
     JDict([error |-> JStr]),
     JList(<<JNum>>),
     JList(<<JDict([translations |-> JNum])>>),
     JList(<<JDict([translations |-> JList(<<JNum>>)])>>),
     JList(<<JDict([translations |-> JList(<<JDict([text |-> JNull])>>)])>>),
     JDict([data |-> JNum]),
     JDict([data |-> JDict([translations |-> JList(<<>>)])]),
     JDict([data |-> JDict([translations |-> JList(<<JDict([translatedText |-> JNum])>>)])]),
     JDict([translations |-> JList(<<JNull>>)]),
     JDict([translations |-> JList(<<JDict([text |-> JNum])>>)]),
     JList(<<JList(<<JDict([a |-> JStr])>>)>>),
     JList(<<JList(<<JList(<<JNum>>)>>)>>) >>

\* TranslatorService.translate(text): the request of the provider call (if
\* one is made) ends in `transport` and the body decodes to `data`.
translate(text, transport, data) ==
  /\ LET outcome == ProviderCall(VariantOf(translator), text, transport, data)
     IN ev' = Event("translate", <<>>, text, "", <<>>,
                    NetBy("caller", TranslateCalls(translator, text)), 0,
                    Translate(translator, text, outcome))
  /\ UNCHANGED <<subtitle_data, search_results, search_button, translate_btn,
                 translate_all_btn, cursor, result_text, active_thread,
                 threads, after_queue, translator>>

\* The exception a provider function is left with.
Raised(outcome) ==
  CASE outcome \in {"ok", "NotText"} -> ""
    [] outcome = "Timeout" -> "TimeoutError"
    [] outcome = "RequestException" -> "ConnectionError"
    [] OTHER -> outcome

\* What a provider function returns.
Returned(text, outcome) ==
  CASE outcome = "ok" -> Translated(text)
    [] outcome = "NotText" -> PyNone
    [] OTHER -> <<>>

\* One call of _translate_azure, _translate_google_paid,
\* _translate_google_free or _translate_deepl: ev.box is the exception raised.
provider_call(variant, text, transport, data) ==
  /\ LET outcome == ProviderCall(variant, text, transport, data)
     IN ev' = Event(variant, <<>>, text, Raised(outcome), <<>>,
                    NetBy("caller", ~(variant = "_translate_azure" /\ BreaksJson(text))),
                    0, Returned(text, outcome))
  /\ UNCHANGED <<subtitle_data, search_results, search_button, translate_btn,
                 translate_all_btn, cursor, result_text, active_thread,
                 threads, after_queue, translator>>

\* The configurations load_config can leave: any service name, any keys.
TranslateConfigs ==
  [current_service : Services \cup {"", "Baidu"}, azure_key : KeyValues,
   azure_region : KeyValues, google_key : KeyValues, deepl_key : KeyValues]

TranslateTexts == {<<>>, <<" ">>, <<" ", NL>>, <<"H", "i">>, <<"\"">>}

\* A TranslatorService after load_config, in an application at rest.
InitTranslate ==
  /\ subtitle_data = <<>>
  /\ search_results = <<>>
  /\ search_button = "normal"
  /\ translate_btn = "disabled"
  /\ translate_all_btn = "disabled"
  /\ cursor = ""
  /\ result_text = "empty"
  /\ active_thread = 0
  /\ threads = [t \in ThreadIds |-> FreeThread]
  /\ after_queue = <<>>
  /\ translator \in TranslateConfigs
  /\ ev = Quiet

\* The texts given to the provider functions (translate hands on no blank
\* text).
ProviderTexts == {<<"H", "i">>, <<"\"">>}

\* How a request can go: it fails, or it succeeds with one of the bodies.
Exchanges ==
  {<<"ok", i>> : i \in 1..Len(Responses)}
    \cup {<<transport, 1>> : transport \in Transports \ {"ok"}}

NextTranslate ==
  \/ \E text \in TranslateTexts, x \in Exchanges :
       translate(text, x[1], Responses[x[2]])
  \/ \E variant \in Variants, text \in ProviderTexts, x \in Exchanges :
       provider_call(variant, text, x[1], Responses[x[2]])

SpecTranslate == InitTranslate /\ [][NextTranslate]_vars

\* --------------------------------------------------------------- claims

\* The search tasks in flight: the search threads alive, and the ended ones
\* whose update_ui_after_search the main loop has still to run.
SearchTasks ==
  Cardinality({t \in ThreadIds : threads[t].kind = "search"})
  + Cardinality({i \in 1..Len(after_queue) :
                   after_queue[i].cb = "update_ui_after_search"})

\* The translation workers alive.
TranslationThreads == {t \in ThreadIds : threads[t].kind \in {"selected", "all"}}

\* C1: at most one search task is in flight at any time: from the start of a
\* search worker until its update_ui_after_search has run, no search request
\* (button or Return key) starts a second worker.
C1_OneSearchInFlight == SearchTasks <= 1

\* C2: at most one translation worker started by _run_threaded_task is alive
\* at any time.
C2_OneTranslationAlive == Cardinality(TranslationThreads) <= 1

\* C3: the match records of a search are grouped by file identifier in
\* ascending lexical order, whatever order the files were loaded in.
C3_LexicalOrder ==
  \A i, j \in 1..Len(search_results) :
    i < j => LexRank(search_results[i][1]) <= LexRank(search_results[j][1])

\* C4: a search worker works on a snapshot taken at task start: the matches it
\* hands over are those of the corpus as it was when search() started it,
\* whatever the control thread did to the corpus meanwhile.
C4_SearchSnapshot ==
  \A i \in 1..Len(after_queue) :
    after_queue[i].cb = "update_ui_after_search"
      => after_queue[i].data = after_queue[i].snap

\* C5: translate-all hands over one translated record per match record of the
\* result set it was started on, in the same order (record i of the output is
\* record i of that result set with its translation).
C5_OneToOne ==
  \A i \in 1..Len(after_queue) :
    after_queue[i].cb = "update_ui_with_all_translations"
      => LET out == after_queue[i].data
             started_on == after_queue[i].snap
         IN /\ Len(out) = Len(started_on)
            /\ \A k \in 1..Len(out) :
                 <<out[k][1], out[k][2], out[k][3]>> = started_on[k]

\* C6: the control thread never makes a provider call: no event handler run
\* by the control thread sends a network request itself.
C6_NoControlNetwork == ev.net # "control"

\* The stored entries under identifier fn, and the number of slots of the
\* dict that hold fn.
SlotsOf(d, fn) == Cardinality({k \in 1..Len(d) : d[k].fn = fn})

\* C7 (as stated): a load of an identifier that is already in the corpus
\* leaves one file under it with its entries unchanged, and the attempt is
\* listed as an error for that file in the load report.
C7_DuplicateReported ==
  [][ev'.op = "select_files" =>
       \A i \in 1..Len(ev'.files) :
         LET fn == Basename(ev'.files[i]) IN
         fn \in DictKeys(subtitle_data) =>
           /\ SlotsOf(subtitle_data', fn) = 1
           /\ DictGet(subtitle_data', fn) = DictGet(subtitle_data, fn)
           /\ \E k \in 1..Len(ev'.errs) : ev'.errs[k] = fn]_vars

\* C7 (as the code has it): a load of an identifier that is already in the
\* corpus leaves one file under it with its entries unchanged; the attempt is
\* skipped without an error: the file is not counted as loaded and is not
\* listed in the load report, and a selection of such files alone raises no
\* error dialog.
C7_DuplicateSkipped ==
  [][ev'.op = "select_files" =>
       LET dup == {i \in 1..Len(ev'.files) :
                     Basename(ev'.files[i]) \in DictKeys(subtitle_data)}
       IN
       /\ \A i \in dup :
            LET fn == Basename(ev'.files[i]) IN
            /\ SlotsOf(subtitle_data', fn) = 1
            /\ DictGet(subtitle_data', fn) = DictGet(subtitle_data, fn)
            /\ \A k \in 1..Len(ev'.errs) : ev'.errs[k] # fn
       /\ ev'.loaded + Len(ev'.errs) = Len(ev'.files) - Cardinality(dup)
       /\ dup = 1..Len(ev'.files) => ev'.box = ""]_vars

\* A selection held a.srt of the other directory while a.srt was loaded: the
\* corpus keeps the entries loaded first, nothing was loaded or reported.
C7_Witness ==
  /\ ev.op = "select_files"
  /\ ev.files = <<"d2/a.srt">>
  /\ "a.srt" \in DictKeys(subtitle_data)
  /\ DictGet(subtitle_data, "a.srt") = DiskSubtitles["d1/a.srt"]
  /\ DictGet(subtitle_data, "a.srt") # DiskSubtitles["d2/a.srt"]
  /\ ev.loaded = 0 /\ ev.errs = <<>> /\ ev.box = ""

\* Whether load_srt_file can load the file: it decodes under one of the
\* encodings and parses to at least one entry.
Loadable(path) ==
  DiskContent[path] # UnicodeDecodeError /\ DiskSubtitles[path] # <<>>

\* C8: in a load of several files, a file that fails (undecodable or without
\* entries) does not stop the others: every loadable file of the selection
\* whose identifier was not loaded is in the corpus after it with its parsed
\* entries, every failed file is absent from the corpus and listed exactly
\* once in the error report, and the error dialog is raised iff a file failed.
C8_BatchLoad ==
  [][ev'.op = "select_files" =>
       LET new == {i \in 1..Len(ev'.files) :
                     Basename(ev'.files[i]) \notin DictKeys(subtitle_data)}
       IN
       /\ \A i \in new :
            LET path == ev'.files[i]
                fn == Basename(path)
            IN
            IF Loadable(path)
            THEN /\ fn \in DictKeys(subtitle_data')
                 /\ DictGet(subtitle_data', fn) = DiskSubtitles[path]
                 /\ \A k \in 1..Len(ev'.errs) : ev'.errs[k] # fn
            ELSE /\ fn \notin DictKeys(subtitle_data')
                 /\ Cardinality({k \in 1..Len(ev'.errs) : ev'.errs[k] = fn}) = 1
       /\ ev'.loaded = Cardinality({i \in new : Loadable(ev'.files[i])})
       /\ Len(ev'.errs) = Cardinality({i \in new : ~Loadable(ev'.files[i])})
       /\ (ev'.box = "load error") = (ev'.errs # <<>>)]_vars

\* A selection of two files whose first failed and whose second was loaded.
C8_Witness ==
  /\ ev.op = "select_files"
  /\ Len(ev.files) = 2
  /\ ~Loadable(ev.files[1])
  /\ ev.errs = <<Basename(ev.files[1])>>
  /\ ev.loaded = 1
  /\ Basename(ev.files[2]) \in DictKeys(subtitle_data)
  /\ Basename(ev.files[1]) \notin DictKeys(subtitle_data)
  /\ ev.box = "load error"

\* C9: after any sequence of load, remove, clear-all and search operations
\* every file stored in subtitle_data has a non-empty entry list and every
\* stored entry has a non-empty text.
C9_NonEmptyEntries ==
  \A i \in 1..Len(subtitle_data) :
    subtitle_data[i] # Tombstone =>
      /\ subtitle_data[i].subs # <<>>
      /\ \A k \in 1..Len(subtitle_data[i].subs) :
           subtitle_data[i].subs[k][2] # <<>>

\* b.srt (one of whose two blocks has no text) is stored with one entry, and
\* a selection of empty.srt (which parses to no entry) was refused.
C9_Witness ==
  /\ ev.op = "select_files"
  /\ ev.files = <<"d1/empty.srt">>
  /\ ev.loaded = 0
  /\ ev.errs = <<"empty.srt">>
  /\ "empty.srt" \notin DictKeys(subtitle_data)
  /\ "b.srt" \in DictKeys(subtitle_data)
  /\ Len(DictGet(subtitle_data, "b.srt")) = 1

\* C10: a search whose query is empty or all whitespace is rejected with the
\* warning, whether the corpus is empty or not: no search worker is started,
\* and the corpus, the result set, the buttons, the threads and the hand-off
\* queue are left as they were.
C10_BlankQueryRejected ==
  [][(ev'.op = "search" /\ Strip(ev'.query) = <<>>) =>
       /\ ev'.box = "enter a search keyword"
       /\ UNCHANGED <<subtitle_data, search_results, search_button,
                      translate_btn, translate_all_btn, cursor, result_text,
                      active_thread, threads, after_queue>>]_vars

\* A blank query was rejected over a corpus that holds a file.
C10_Witness ==
  /\ ev.op = "search"
  /\ ev.query = <<" ">>
  /\ ev.box = "enter a search keyword"
  /\ DictUsed(subtitle_data) > 0

\* C11: a search with a non-blank query over an empty corpus is not an error:
\* no search request with a non-blank query is refused with a warning.
C11_EmptyCorpusSearch ==
  (ev.op = "search" /\ Strip(ev.query) # <<>>) => ev.box = ""

\* The entries (slot, index) of dict d whose lower-cased text contains the
\* lower-cased query.
MatchingEntries(d, query) ==
  {p \in UNION {{<<i, k>> : k \in 1..Len(d[i].subs)} : i \in 1..Len(d)} :
     Contains(Lower(d[p[1]].subs[p[2]][2]), Lower(query))}

\* The records of results are exactly the entries of d that match query: each
\* record is a matching entry of a file of d, each matching entry has its
\* record, and none is there twice.
ExactlyMatching(results, d, query) ==
  /\ \A k \in 1..Len(results) :
       \E p \in MatchingEntries(d, query) :
         results[k] = <<d[p[1]].fn, d[p[1]].subs[p[2]][1], d[p[1]].subs[p[2]][2]>>
  /\ \A p \in MatchingEntries(d, query) :
       \E k \in 1..Len(results) :
         results[k] = <<d[p[1]].fn, d[p[1]].subs[p[2]][1], d[p[1]].subs[p[2]][2]>>
  /\ Len(results) = Cardinality(MatchingEntries(d, query))

ConfigSentinels ==
  {SentinelNoService, SentinelAzureConfig, SentinelGoogleConfig,
   SentinelDeepLConfig, SentinelUnknownService}

\* The selected provider cannot be called: none is selected, or a mandatory
\* credential of the selected one is empty.
Unconfigured(cfg) ==
  \/ cfg.current_service = ""
  \/ cfg.current_service = "Azure" /\ (cfg.azure_key = "" \/ cfg.azure_region = "")
  \/ cfg.current_service = "Google" /\ cfg.google_key = ""
  \/ cfg.current_service = "DeepL" /\ cfg.deepl_key = ""

\* C13: translate never raises and returns a string for every text,
\* configuration and provider outcome; when no provider is selected or a
\* mandatory credential of the selected one is empty it returns a
\* configuration sentinel and makes no network call.
C13_AlwaysString ==
  ev.op = "translate" =>
    /\ ev.out # PyNone
    /\ Unconfigured(translator) => (ev.out \in ConfigSentinels /\ ev.net = "")

BlankText(text) == text = <<>> \/ IsSpaceStr(text)

\* C14 as stated: for every provider selection and credential state,
\* including no provider selected, translate of an empty or all-whitespace
\* text returns the "nothing to translate" sentinel and makes no network call.
C14_BlankTextAlways ==
  (ev.op = "translate" /\ BlankText(ev.query)) =>
    (ev.out = SentinelEmptyText /\ ev.net = "")

\* C14: for every selected provider and every credential state, translate of
\* an empty or all-whitespace text returns the "nothing to translate"
\* sentinel; with no provider selected it returns the sentinel asking to
\* select a service; no network call is made in either case.
C14_BlankText ==
  (ev.op = "translate" /\ BlankText(ev.query)) =>
    /\ ev.net = ""
    /\ ev.out = IF translator.current_service = ""
                THEN SentinelNoService ELSE SentinelEmptyText

C14_Witness ==
  /\ ev.op = "translate"
  /\ ev.query = <<" ", NL>>
  /\ translator.current_service = "DeepL"
  /\ translator.deepl_key # ""
  /\ ev.out = SentinelEmptyText
  /\ ev.net = ""

\* C15: every provider call ends in the translated text, a timeout error, a
\* network error or a format error: no other exception leaves the provider
\* function, and what it returns is the translated text.
C15_FourOutcomes ==
  ev.op \in Variants =>
    /\ ev.box \in {"", "TimeoutError", "ConnectionError", "ValueError"}
    /\ ev.box = "" => ev.out = Translated(ev.query)

\* C16: with Google selected and the Google key empty, translate of a text
\* that is not blank calls the free Google interface and returns its
\* translation instead of reporting a missing credential.
C16_GoogleFreeUsed ==
  (/\ ev.op = "translate"
   /\ translator.current_service = "Google"
   /\ translator.google_key = ""
   /\ ~BlankText(ev.query))
  => (ev.net = "caller" /\ ev.out \notin ConfigSentinels)

\* C17: a file whose only block is not followed by a blank line parses to
\* one entry and is loaded: after such a file was picked alone, the corpus
\* holds it with one entry and no error is reported.
C17_FinalBlockParsed ==
  (ev.op = "select_files" /\ ev.files = <<"d1/empty.srt">>) =>
    /\ ev.errs = <<>>
    /\ "empty.srt" \in DictKeys(subtitle_data)
    /\ Len(DictGet(subtitle_data, "empty.srt")) = 1

\* C18: every match record of search_results names a file that is a key of
\* subtitle_data.
C18_ResultsOfLoadedFiles ==
  \A k \in 1..Len(search_results) :
    search_results[k][1] \in DictKeys(subtitle_data)

\* C19: every accepted search runs its completion hand-off in the end: a
\* disabled search button is enabled again, whatever the control thread does
\* to the corpus during the scan.
C19_SearchCompletes ==
  (search_button = "disabled") ~> (search_button = "normal")

\* C20: the two translate buttons are enabled only if search_results is not
\* empty and no search or translation task is in flight.
C20_TranslateButtons ==
  (translate_btn = "normal" \/ translate_all_btn = "normal") =>
    (search_results # <<>> /\ InFlight = 0)
====
